---- MODULE Spec2Model ----
(***************************************************************************)
(* Traceroute race engine of traceroute-visualizer/app.py: player          *)
(* registration, the challenge directory, the per-request probe stream     *)
(* (/stream), the in-memory leaderboard race_results with its sqlite       *)
(* mirror, and the session map active_races.                               *)
(*                                                                         *)
(* Abstractions.  A geolocated point is one integer coordinate             *)
(* (final_hop_lat) and haversine_distance is the absolute difference; the  *)
(* challenge target sits at coordinate 0.  Wall-clock values are not       *)
(* stored: the start_time of a session is represented by the probe that    *)
(* wrote it (two probes never read the same clock value), and finish_time  *)
(* is not a field of a record.  The sqlite table race_results is a         *)
(* sequence of rows in rowid order.  Display names are not modelled.       *)
(* A code section that runs under one lock, or between two yields of the  *)
(* response generator without touching shared state in between, is one    *)
(* action.                                                                 *)
(***************************************************************************)
EXTENDS Integers, Sequences, FiniteSets, TLC

\* ---------------------------------------------------------------- bounds
NumPlayers == 2
NumProbes == 2
NumChallenges == 2
MaxHops == 1
MaxLat == 1
MaxRuns == 2
NumSeq == 12
MaxStreamHops == 2
MaxRows == 4
MaxCoord == 2

\* ------------------------------------------------------ program constants
Sentinel == 999
MaxPoints == 10
NoPlayer == 0
NoChallenge == 0
NoGeo == -1
NoIndex == 0

Players == 1..NumPlayers
StaleCookie == NumPlayers + 1
Probes == 1..NumProbes
ChallengeIds == 1..NumChallenges
Lats == 0..MaxLat
SeqPlayers == 1..NumSeq

VARIABLES
    players,        \* ids of the registered players (keys of the dict players)
    challenges,     \* ids of the dict challenges, in insertion order
    ended,          \* challenges whose end_time lies before now
    race_results,   \* the list race_results
    db_results,     \* table race_results of the sqlite file, in rowid order
    active_races,   \* the dict active_races: player id -> session
    pc,             \* where each probe's response generator stands
    player_id,      \* the probe's cookie
    challenge,      \* the challenge the probe read at its start
    is_race,
    last_hop_geo,
    total_hops,
    outcome,        \* the outcome event the generator yielded
    placeholder_index, \* the index the placeholder search stopped at
    bcast,          \* what the latest step emitted through socketio
    begun,          \* how many probe requests have been served so far
    arrival,        \* SpecSeq: the order in which the participants finish
    arrived,        \* SpecSeq: how many of them have finished
    traced,         \* the probes whose client keeps a log of its connection
    sse,            \* that log: the events received, and the client's close
    db_up,          \* whether sqlite accepts a write (FALSE: execute raises)
    max_hops,       \* run_traceroute's max_hops
    tr_system,      \* SpecProber: platform.system().lower()
    tr_rows,        \* SpecProber: what the tool found at hop 1, 2, ...
    tr_lines,       \* SpecProber: proc.stdout, the lines the tool prints
    tr_pos,         \* SpecProber: the line the for loop reads next
    tr_hop,         \* SpecProber: the local hop
    tr_out,         \* SpecProber: the tuples yielded so far
    jd_in,          \* SpecJudge: last hop, target and radius of one judgement
    jd_out,         \* SpecJudge: the event type the judgement yields
    bus_up,         \* whether socketio.emit returns (FALSE: it raises)
    lk_owner,       \* SpecLocks: the request holding each Lock, if any
    rq_kind,        \* SpecLocks: the handler each request thread runs
    rq_pos,         \* SpecLocks: the lock operation it comes to next
    hop_trail,      \* SpecTrack: what run_traceroute and geo_ip gave, per probe
    db_challenges   \* table challenges of the sqlite file, in rowid order

vars == <<players, challenges, ended, race_results, db_results, active_races,
          pc, player_id, challenge, is_race, last_hop_geo, total_hops,
          outcome, placeholder_index, bcast, begun, arrival, arrived,
          traced, sse, db_up, max_hops, tr_system, tr_rows, tr_lines, tr_pos,
          tr_hop, tr_out, jd_in, jd_out, bus_up, lk_owner, rq_kind, rq_pos,
          hop_trail, db_challenges>>

probeVars == <<pc, player_id, challenge, is_race, last_hop_geo, total_hops,
               outcome, placeholder_index>>

seqVars == <<arrival, arrived>>

proberVars == <<tr_system, tr_rows, tr_lines, tr_pos, tr_hop, tr_out>>

judgeVars == <<jd_in, jd_out>>

lockVars == <<lk_owner, rq_kind, rq_pos>>

\* What no request handler writes.
fixedVars == <<traced, db_up, bus_up, max_hops, proberVars, judgeVars, lockVars>>

sideVars == <<fixedVars, hop_trail, db_challenges>>

\* ------------------------------------------------------------ data model
Abs(x) == IF x < 0 THEN -x ELSE x

Max(a, b) == IF a >= b THEN a ELSE b

haversine_distance(lat1, lat2) == Abs(lat2 - lat1)

\* The fields of a Challenge the judge reads.
ChallengeRow(c) == [id |-> c, city_lat |-> 0, radius_km |-> 0]

calculate_points(rank) == Max(0, MaxPoints - (rank - 1))

RaceResult(p, c, rank, points, lat, hops, dist) ==
    [player_id |-> p, challenge_id |-> c, rank |-> rank, points |-> points,
     final_hop_lat |-> lat, total_hops |-> hops,
     distance_from_target_km |-> dist]

NoRecord == RaceResult(NoPlayer, NoChallenge, 0, 0, 0, 0, 0)

NoSession == [start_time |-> 0, challenge_id |-> NoChallenge, hops |-> <<>>]

NoOutcome == [type |-> "none", rank |-> 0, points |-> 0, distance_km |-> 0]

\* The first challenge of the dict whose window contains now.
\* Mutant: the last challenge of the directory whose window is open.
ActiveIn_Last(chs, gone) ==
    LET live == {k \in 1..Len(chs) : chs[k] \notin gone}
    IN  IF live = {} THEN NoChallenge
        ELSE chs[CHOOSE k \in live : \A j \in live : k >= j]

ActiveIn(chs, gone) ==
    LET live == {k \in 1..Len(chs) : chs[k] \notin gone}
    IN  IF live = {} THEN NoChallenge
        ELSE chs[CHOOSE k \in live : \A j \in live : k <= j]

get_active_challenge == ActiveIn(challenges, ended)

\* ------------------------------------------------------ leaderboard store
Matches(r, p, c) == r.player_id = p /\ r.challenge_id = c

\* register: any(r for r in race_results if r.player_id == ... )
ExistingResult(rr, p, c) == \E k \in 1..Len(rr) : Matches(rr[k], p, c)

PlaceholderResult(p, c) == RaceResult(p, c, Sentinel, 0, 0, 0, 0)

\* Mutant: the placeholder is appended without looking for a result.
EnsurePlaceholder_NoCheck(rr, p, c) == Append(rr, PlaceholderResult(p, c))

\* Mutant: only a result with points == 0 counts as existing.
EnsurePlaceholder_ZeroOnly(rr, p, c) ==
    IF \E k \in 1..Len(rr) : Matches(rr[k], p, c) /\ rr[k].points = 0
    THEN rr ELSE Append(rr, PlaceholderResult(p, c))

\* register: the placeholder is appended unless the player has a result.
EnsurePlaceholder(rr, p, c) ==
    IF ExistingResult(rr, p, c) THEN rr ELSE Append(rr, PlaceholderResult(p, c))

\* completed_results: the results of the challenge with points > 0.
CompletedCount(rr, c) ==
    Cardinality({k \in 1..Len(rr) : rr[k].challenge_id = c /\ rr[k].points > 0})

\* Mutant: the first zero-point result of the challenge, whoever holds it.
PlaceholderIndex_AnyPlayer(rr, p, c) ==
    LET hit == {k \in 1..Len(rr) : rr[k].challenge_id = c /\ rr[k].points = 0}
    IN  IF hit = {} THEN NoIndex ELSE CHOOSE k \in hit : \A j \in hit : k <= j

\* The first index holding a result of the player with points == 0.
PlaceholderIndex(rr, p, c) ==
    LET hit == {k \in 1..Len(rr) : Matches(rr[k], p, c) /\ rr[k].points = 0}
    IN  IF hit = {} THEN NoIndex ELSE CHOOSE k \in hit : \A j \in hit : k <= j

NextRank(rr, c) == CompletedCount(rr, c) + 1

SuccessResult(rr, p, c, lat, hops, dist) ==
    RaceResult(p, c, NextRank(rr, c), calculate_points(NextRank(rr, c)),
               lat, hops, dist)

\* Mutant: the result is appended, a placeholder or not.
FinalizeSuccess_AppendOnly(rr, p, c, lat, hops, dist) ==
    Append(rr, SuccessResult(rr, p, c, lat, hops, dist))

\* The results_lock section of a won race: replace the placeholder or append.
FinalizeSuccess(rr, p, c, lat, hops, dist) ==
    LET idx == PlaceholderIndex(rr, p, c)
        res == SuccessResult(rr, p, c, lat, hops, dist)
    IN  IF idx # NoIndex THEN [rr EXCEPT ![idx] = res] ELSE Append(rr, res)

\* Mutant: the hop count of the attempt is not written.
FailureResult_NoHops(p, c, lat, hops, dist) ==
    RaceResult(p, c, Sentinel, 0, lat, 0, dist)

FailureResult(p, c, lat, hops, dist) ==
    RaceResult(p, c, Sentinel, 0, lat, hops, dist)

\* The results_lock section of a lost race: only a placeholder is updated.
FinalizeFailure(rr, p, c, lat, hops, dist) ==
    LET idx == PlaceholderIndex(rr, p, c)
    IN  IF idx # NoIndex
        THEN [rr EXCEPT ![idx] = FailureResult(p, c, lat, hops, dist)]
        ELSE rr

\* ------------------------------------------------------------ sqlite rows
DbHit(row, p, c) == Matches(row, p, c) /\ row.points = 0

DbInsert(db, row) == Append(db, row)

\* UPDATE race_results SET finish_time, rank, points, final_hop_*, total_hops,
\* ... WHERE player_id = ? AND challenge_id = ? AND points = 0, or the INSERT.
\* Every matching row is written; player_name is not among the columns set.
DbSaveSuccess(db, rr, p, c, lat, hops, dist) ==
    LET res == SuccessResult(rr, p, c, lat, hops, dist)
    IN  IF PlaceholderIndex(rr, p, c) # NoIndex
        THEN [k \in 1..Len(db) |-> IF DbHit(db[k], p, c) THEN res ELSE db[k]]
        ELSE DbInsert(db, res)

\* The failure UPDATE writes finish_time, total_hops, duration and distance.
DbSaveFailure(db, rr, p, c, hops, dist) ==
    IF PlaceholderIndex(rr, p, c) # NoIndex
    THEN [k \in 1..Len(db) |->
             IF DbHit(db[k], p, c)
             THEN [db[k] EXCEPT !.total_hops = hops,
                                !.distance_from_target_km = dist]
             ELSE db[k]]
    ELSE db

DbSavePlaceholder(db, rr, p, c) ==
    IF ExistingResult(rr, p, c) THEN db ELSE DbInsert(db, PlaceholderResult(p, c))

\* ------------------------------------------------------- client's events
\* The JSON events of the stream, by their type field; hop carries the hop.
StartEvent == [type |-> "start", hop |-> 0]

\* Mutant: every hop event carries hop 1.
HopEvent_First(hop) == [type |-> "hop", hop |-> 1]

HopEvent(hop) == [type |-> "hop", hop |-> hop]

OutcomeEvent(type) == [type |-> type, hop |-> 0]

EndEvent == [type |-> "end", hop |-> 0]

\* Not an event of the server: the client's note that it closed the stream.
ClosedMark == [type |-> "closed", hop |-> 0]

Closed(log) == log # <<>> /\ log[Len(log)] = ClosedMark

\* yield: the event reaches the client unless the client has closed.
Deliver(i, ev) ==
    IF i \in traced /\ ~Closed(sse[i])
    THEN [sse EXCEPT ![i] = Append(@, ev)]
    ELSE sse

Close(i) ==
    IF i \in traced /\ ~Closed(sse[i])
    THEN [sse EXCEPT ![i] = Append(@, ClosedMark)]
    ELSE sse

\* Mutant: no race_finished is emitted.
RaceFinished_Silent(res, dist) == <<>>

\* socketio.emit('race_finished', {'result': ..., 'distance_km': ...})
RaceFinished(res, dist) ==
    <<[type |-> "race_finished", result |-> res, distance_km |-> dist]>>

\* Mutant: the boundary is outside.
WithinRadius_Strict(distance, radius_km) == distance < radius_km

\* if distance <= challenge.radius_km
WithinRadius(distance, radius_km) == distance <= radius_km

\* ------------------------------------------------------------------ state
ProberOff ==
    /\ tr_system = "linux"
    /\ tr_rows = <<>>
    /\ tr_lines = <<>>
    /\ tr_pos = 1
    /\ tr_hop = 0
    /\ tr_out = <<>>

JudgeOff ==
    /\ jd_in = [lat |-> 0, city_lat |-> 0, radius_km |-> 0]
    /\ jd_out = "none"

\* -------------------------------------------------------------- the locks
\* The five threading.Lock objects and the order in which each handler
\* enters and leaves its with blocks.  A Lock has no owner and does not count:
\* acquire blocks while it is taken, by whichever thread.
NumRequests == 2

NoRequest == 0

Requests == 1..NumRequests

Locks == {"players_lock", "challenges_lock", "results_lock", "races_lock", "db_lock"}

Acquire(l) == [op |-> "acquire", lock |-> l]

Release(l) == [op |-> "release", lock |-> l]

\* with l: ...
With(l) == <<Acquire(l), Release(l)>>

\* with outer: ... with inner: ...
Nested(outer, inner) == <<Acquire(outer), Acquire(inner), Release(inner), Release(outer)>>

GetActiveChallengeLocks == With("challenges_lock")

\* /stream of a race that is won: the request, one hop, the judgement and
\* the cleanup.
StreamLocks ==
    GetActiveChallengeLocks \o Nested("players_lock", "races_lock")
    \o With("races_lock") \o With("players_lock")
    \o Nested("results_lock", "db_lock") \o With("races_lock")

RegisterLocks ==
    Nested("players_lock", "db_lock") \o GetActiveChallengeLocks
    \o Nested("results_lock", "db_lock")

ScoreboardLocks == GetActiveChallengeLocks \o With("results_lock")

ToggleChallengeLocks == Nested("challenges_lock", "db_lock")

\* debug_info calls get_active_challenge inside its with challenges_lock.
DebugInfoLocks ==
    With("players_lock")
    \o <<Acquire("challenges_lock")>> \o GetActiveChallengeLocks
    \o <<Release("challenges_lock")>>
    \o With("results_lock") \o With("races_lock")

DownloadResultsLocks ==
    GetActiveChallengeLocks \o With("challenges_lock") \o With("results_lock")

RequestKinds ==
    {"stream", "register", "scoreboard", "toggle_challenge", "debug_info",
     "download_results"}

LockScript(kind) ==
    CASE kind = "stream" -> StreamLocks
      [] kind = "register" -> RegisterLocks
      [] kind = "scoreboard" -> ScoreboardLocks
      [] kind = "toggle_challenge" -> ToggleChallengeLocks
      [] kind = "debug_info" -> DebugInfoLocks
      [] kind = "download_results" -> DownloadResultsLocks
      [] OTHER -> <<>>

\* No request is being served and every Lock is free.
LocksOff ==
    /\ lk_owner = [l \in Locks |-> NoRequest]
    /\ rq_kind = [r \in Requests |-> "none"]
    /\ rq_pos = [r \in Requests |-> 0]

\* The state of the process after start-up on an empty database.
Started ==
    /\ players = {}
    /\ challenges = <<>>
    /\ ended = {}
    /\ race_results = <<>>
    /\ db_results = <<>>
    /\ active_races = [p \in Players |-> NoSession]
    /\ pc = [i \in Probes |-> "idle"]
    /\ player_id = [i \in Probes |-> NoPlayer]
    /\ challenge = [i \in Probes |-> NoChallenge]
    /\ is_race = [i \in Probes |-> FALSE]
    /\ last_hop_geo = [i \in Probes |-> NoGeo]
    /\ total_hops = [i \in Probes |-> 0]
    /\ outcome = [i \in Probes |-> NoOutcome]
    /\ placeholder_index = [i \in Probes |-> NoIndex]
    /\ bcast = <<>>
    /\ begun = 0
    /\ arrival = <<>>
    /\ arrived = 0
    /\ sse = [i \in Probes |-> <<>>]
    /\ db_up = TRUE
    /\ bus_up = TRUE
    /\ LocksOff
    /\ db_challenges = challenges

Init ==
    /\ Started
    /\ traced = {}
    /\ max_hops = MaxHops
    /\ hop_trail = <<>>
    /\ ProberOff
    /\ JudgeOff

\* ---------------------------------------------------------------- actions
\* POST /register with a valid display name.  A new player gets a fresh id,
\* which no other request can name before this one has answered.  When sqlite
\* refuses the write of the players table the handler raises there: the id of
\* a new player is then never sent to a client, and nothing else has changed.
Register(p) ==
    LET c == get_active_challenge
        joined == c # NoChallenge /\ ~ExistingResult(race_results, p, c)
    IN  IF ~db_up
        THEN UNCHANGED vars
        ELSE /\ players' = players \cup {p}
             /\ race_results' =
                   IF c # NoChallenge THEN EnsurePlaceholder(race_results, p, c)
                   ELSE race_results
             /\ db_results' =
                   IF c # NoChallenge
                   THEN DbSavePlaceholder(db_results, race_results, p, c)
                   ELSE db_results
             /\ bcast' =
                   IF joined /\ bus_up
                   THEN <<[type |-> "player_joined",
                           result |-> PlaceholderResult(p, c), distance_km |-> 0]>>
                   ELSE <<>>
             /\ UNCHANGED <<challenges, ended, active_races, probeVars, begun,
                            seqVars, sse, sideVars>>

\* create_challenge: a challenge with a fresh id whose window starts now.
CreateChallenge ==
    /\ Len(db_challenges) < NumChallenges
    /\ challenges' = Append(challenges, Len(db_challenges) + 1)
    /\ db_challenges' = Append(db_challenges, Len(db_challenges) + 1)
    /\ bcast' =
          IF bus_up
          THEN <<[type |-> "new_challenge", result |-> NoRecord, distance_km |-> 0]>>
          ELSE <<>>
    /\ UNCHANGED <<players, ended, race_results, db_results, active_races,
                   probeVars, begun, seqVars, sse, fixedVars, hop_trail>>

\* The clock passes the end_time of a challenge.
EndWindow(c) ==
    /\ \E k \in 1..Len(challenges) : challenges[k] = c
    /\ c \notin ended
    /\ ended' = ended \cup {c}
    /\ bcast' = <<>>
    /\ UNCHANGED <<players, challenges, race_results, db_results, active_races,
                   probeVars, begun, seqVars, sse, sideVars>>

\* stream() up to the start event: the race context is decided and the
\* session written.
Begin(i, cookie) ==
    LET c == get_active_challenge
        race == cookie # NoPlayer /\ c # NoChallenge /\ cookie \in players
    IN  /\ pc[i] = "idle"
        /\ begun < MaxRuns
        /\ begun' = begun + 1
        /\ pc' = [pc EXCEPT ![i] = "hops"]
        /\ player_id' = [player_id EXCEPT ![i] = cookie]
        /\ challenge' = [challenge EXCEPT ![i] = c]
        /\ is_race' = [is_race EXCEPT ![i] = race]
        /\ active_races' =
              IF race
              THEN [active_races EXCEPT ![cookie] =
                       [start_time |-> i, challenge_id |-> c, hops |-> <<>>]]
              ELSE active_races
        /\ bcast' = <<>>
        /\ sse' = IF i \in traced THEN [sse EXCEPT ![i] = <<StartEvent>>] ELSE sse
        /\ hop_trail' = IF i \in DOMAIN hop_trail
                         THEN [hop_trail EXCEPT ![i] = <<>>]
                         ELSE hop_trail
        /\ UNCHANGED <<players, challenges, ended, race_results, db_results,
                       last_hop_geo, total_hops, outcome, placeholder_index,
                       seqVars, fixedVars, db_challenges>>

\* Mutant: the hop is written whether the session is there or not.
record_hop_Unguarded(races, p, hop) ==
    [races EXCEPT ![p].hops = Append(@, hop)]

\* with races_lock: if player_id in active_races: ...['hops'].append(...)
record_hop(races, p, hop) ==
    IF races[p] # NoSession
    THEN [races EXCEPT ![p].hops = Append(@, hop)]
    ELSE races

\* Mutant: a hop without a position forgets the earlier one.
LastHopGeo_Latest(prev, located, g) == IF located THEN g ELSE NoGeo

\* if g: last_hop_geo = g
LastHopGeo(prev, located, g) == IF located THEN g ELSE prev

\* One element of run_traceroute: geolocate, record the hop, yield it.
\* g is what geo_ip answers, asked only when the hop has an address.
Hop(i, answered, g) ==
    LET hop == total_hops[i] + 1
        located == answered /\ g # NoGeo
        p == player_id[i]
    IN  /\ pc[i] = "hops"
        /\ total_hops[i] < max_hops
        /\ total_hops' = [total_hops EXCEPT ![i] = hop]
        /\ last_hop_geo' =
              [last_hop_geo EXCEPT ![i] = LastHopGeo(@, located, g)]
        /\ active_races' =
              IF located /\ is_race[i] /\ p # NoPlayer
              THEN record_hop(active_races, p, hop)
              ELSE active_races
        /\ bcast' = <<>>
        /\ sse' = Deliver(i, HopEvent(hop))
        /\ hop_trail' =
              IF i \in DOMAIN hop_trail
              THEN [hop_trail EXCEPT ![i] =
                       Append(@, [hop |-> hop,
                                  geo |-> IF located THEN g ELSE NoGeo])]
              ELSE hop_trail
        /\ UNCHANGED <<players, challenges, ended, race_results, db_results,
                       pc, player_id, challenge, is_race, outcome,
                       placeholder_index, begun, seqVars, fixedVars,
                       db_challenges>>

\* The generator is gone: its locals are.
Terminated(i) ==
    /\ pc' = [pc EXCEPT ![i] = "idle"]
    /\ player_id' = [player_id EXCEPT ![i] = NoPlayer]
    /\ challenge' = [challenge EXCEPT ![i] = NoChallenge]
    /\ is_race' = [is_race EXCEPT ![i] = FALSE]
    /\ last_hop_geo' = [last_hop_geo EXCEPT ![i] = NoGeo]
    /\ total_hops' = [total_hops EXCEPT ![i] = 0]
    /\ outcome' = [outcome EXCEPT ![i] = NoOutcome]
    /\ placeholder_index' = [placeholder_index EXCEPT ![i] = NoIndex]

\* "Clean up active race": active_races.pop(player_id, None).
ReleaseSession(i) ==
    IF is_race[i] /\ player_id[i] # NoPlayer
    THEN [active_races EXCEPT ![player_id[i]] = NoSession]
    ELSE active_races

\* Mutant: the judgement does not ask for race mode.
Judged_NoRaceCheck(i) ==
    /\ player_id[i] # NoPlayer
    /\ last_hop_geo[i] # NoGeo
    /\ challenge[i] # NoChallenge

\* if is_race and player_id and last_hop_geo and challenge
Judged(i) ==
    /\ is_race[i]
    /\ player_id[i] # NoPlayer
    /\ last_hop_geo[i] # NoGeo
    /\ challenge[i] # NoChallenge

Distance(i) ==
    haversine_distance(last_hop_geo[i], ChallengeRow(challenge[i]).city_lat)

Inside(i) == WithinRadius(Distance(i), ChallengeRow(challenge[i]).radius_km)

\* The hop stream is exhausted: the generator runs on to its next yield,
\* the outcome event, or to its end when there is none.  A won race keeps
\* going when sqlite raises (except Exception); a lost race that found its
\* placeholder does not: the exception leaves the generator.  So does the
\* one of socketio.emit on the won branch, after the record was written.
Judge(i) ==
    LET p == player_id[i]
        c == challenge[i]
        g == last_hop_geo[i]
        idx == PlaceholderIndex(race_results, p, c)
        res == SuccessResult(race_results, p, c, g, total_hops[i], Distance(i))
    IN  /\ pc[i] = "hops"
        /\ IF Judged(i) /\ Inside(i) /\ ~bus_up
           THEN /\ race_results' =
                      FinalizeSuccess(race_results, p, c, g, total_hops[i], Distance(i))
                /\ db_results' =
                      IF db_up
                      THEN DbSaveSuccess(db_results, race_results, p, c, g,
                                         total_hops[i], Distance(i))
                      ELSE db_results
                /\ Terminated(i)
                /\ bcast' = <<>>
                /\ UNCHANGED <<active_races, sse>>
           ELSE IF Judged(i) /\ Inside(i)
           THEN /\ race_results' =
                      FinalizeSuccess(race_results, p, c, g, total_hops[i], Distance(i))
                /\ db_results' =
                      IF db_up
                      THEN DbSaveSuccess(db_results, race_results, p, c, g,
                                         total_hops[i], Distance(i))
                      ELSE db_results
                /\ placeholder_index' = [placeholder_index EXCEPT ![i] = idx]
                /\ bcast' = RaceFinished(res, Distance(i))
                /\ outcome' = [outcome EXCEPT ![i] =
                                  [type |-> "race_success", rank |-> res.rank,
                                   points |-> calculate_points(res.rank),
                                   distance_km |-> Distance(i)]]
                /\ pc' = [pc EXCEPT ![i] = "outcome"]
                /\ sse' = Deliver(i, OutcomeEvent("race_success"))
                /\ UNCHANGED <<active_races, player_id, challenge, is_race,
                               last_hop_geo, total_hops>>
           ELSE IF Judged(i) /\ idx # NoIndex /\ ~db_up
           THEN /\ race_results' =
                      FinalizeFailure(race_results, p, c, g, total_hops[i], Distance(i))
                /\ Terminated(i)
                /\ bcast' = <<>>
                /\ UNCHANGED <<db_results, active_races, sse>>
           ELSE IF Judged(i)
           THEN /\ race_results' =
                      FinalizeFailure(race_results, p, c, g, total_hops[i], Distance(i))
                /\ db_results' =
                      DbSaveFailure(db_results, race_results, p, c,
                                    total_hops[i], Distance(i))
                /\ placeholder_index' = [placeholder_index EXCEPT ![i] = idx]
                /\ bcast' = <<>>
                /\ outcome' = [outcome EXCEPT ![i] =
                                  [type |-> "race_failed", rank |-> 0, points |-> 0,
                                   distance_km |-> Distance(i)]]
                /\ pc' = [pc EXCEPT ![i] = "outcome"]
                /\ sse' = Deliver(i, OutcomeEvent("race_failed"))
                /\ UNCHANGED <<active_races, player_id, challenge, is_race,
                               last_hop_geo, total_hops>>
           ELSE IF p # NoPlayer /\ g # NoGeo /\ c # NoChallenge /\ p \in players
           THEN /\ outcome' = [outcome EXCEPT ![i] =
                                  [type |-> "distance_feedback", rank |-> 0,
                                   points |-> 0, distance_km |-> Distance(i)]]
                /\ pc' = [pc EXCEPT ![i] = "outcome"]
                /\ bcast' = <<>>
                /\ sse' = Deliver(i, OutcomeEvent("distance_feedback"))
                /\ UNCHANGED <<race_results, db_results, active_races, player_id,
                               challenge, is_race, last_hop_geo, total_hops,
                               placeholder_index>>
           ELSE /\ active_races' = ReleaseSession(i)
                /\ Terminated(i)
                /\ bcast' = <<>>
                /\ sse' = Deliver(i, EndEvent)
                /\ UNCHANGED <<race_results, db_results>>
        /\ UNCHANGED <<players, challenges, ended, begun, seqVars, sideVars>>

\* After the outcome event: release the session and yield the end event.
Cleanup(i) ==
    /\ pc[i] = "outcome"
    /\ active_races' = ReleaseSession(i)
    /\ Terminated(i)
    /\ bcast' = <<>>
    /\ sse' = Deliver(i, EndEvent)
    /\ UNCHANGED <<players, challenges, ended, race_results, db_results, begun,
                   seqVars, sideVars>>

\* The client is gone: the server closes the generator where it is suspended,
\* at the yield of the start event, of a hop or of the outcome event.
Disconnect(i) ==
    /\ pc[i] \in {"hops", "outcome"}
    /\ Terminated(i)
    /\ bcast' = <<>>
    /\ sse' = Close(i)
    /\ UNCHANGED <<players, challenges, ended, race_results, db_results,
                   active_races, begun, seqVars, sideVars>>

Next ==
    \/ \E p \in Players : Register(p)
    \/ CreateChallenge
    \/ \E c \in ChallengeIds : EndWindow(c)
    \/ \E i \in Probes, cookie \in players \cup {NoPlayer, StaleCookie} : Begin(i, cookie)
    \/ \E i \in Probes, answered \in BOOLEAN, g \in Lats \cup {NoGeo} : Hop(i, answered, g)
    \/ \E i \in Probes : Judge(i)
    \/ \E i \in Probes : Cleanup(i)
    \/ \E i \in Probes : Disconnect(i)

Spec == Init /\ [][Next]_vars

\* ----------------------------------------------- one client's connection
\* The stream as its client sees it, while sqlite may start and stop
\* refusing writes and the client may close the stream on its side.  The
\* server learns of a close only when it writes to the connection, so the
\* generator runs on from the yield it is suspended at until Disconnect.
TracedProbe == 1

TracedPlayer == 1

InitStream ==
    /\ Started
    /\ traced = {TracedProbe}
    /\ max_hops = MaxStreamHops
    /\ hop_trail = <<>>
    /\ ProberOff
    /\ JudgeOff

\* The client closes its EventSource.
ClientLeaves(i) ==
    /\ pc[i] # "idle"
    /\ i \in traced
    /\ ~Closed(sse[i])
    /\ sse' = Close(i)
    /\ bcast' = <<>>
    /\ UNCHANGED <<players, challenges, ended, race_results, db_results,
                   active_races, probeVars, begun, seqVars, sideVars>>

\* sqlite3 starts raising on execute (locked or unwritable file), or stops.
DbFault ==
    /\ db_up' = ~db_up
    /\ bcast' = <<>>
    /\ UNCHANGED <<players, challenges, ended, race_results, db_results,
                   active_races, probeVars, begun, seqVars, sse, traced,
                   bus_up, max_hops, proberVars, judgeVars, lockVars,
                   hop_trail, db_challenges>>

GeneratorStep(i) ==
    \/ \E answered \in BOOLEAN, g \in Lats \cup {NoGeo} : Hop(i, answered, g)
    \/ Judge(i)
    \/ Cleanup(i)

NextStream ==
    \/ Register(TracedPlayer)
    \/ CreateChallenge
    \/ \E c \in ChallengeIds : EndWindow(c)
    \/ \E cookie \in players \cup {NoPlayer, StaleCookie} : Begin(TracedProbe, cookie)
    \/ \E answered \in BOOLEAN, g \in Lats \cup {NoGeo} : Hop(TracedProbe, answered, g)
    \/ Judge(TracedProbe)
    \/ Cleanup(TracedProbe)
    \/ Disconnect(TracedProbe)
    \/ ClientLeaves(TracedProbe)
    \/ DbFault

SpecStream == InitStream /\ [][NextStream]_vars

\* The WSGI server keeps iterating the response generator, and traceroute
\* ends after max_hops hops at the latest.
SpecLive == SpecStream /\ WF_vars(\E i \in Probes : GeneratorStep(i))

\* ------------------------------------------- serialized finalizations
\* NumSeq participants finish one after another on challenge 1: the
\* results_lock sections of their probes in the order arrival.  Either none
\* of them or all of them registered while the challenge was active.
FirstChallenge == 1

Rotations ==
    {[k \in 1..NumSeq |-> ((k + s - 1) % NumSeq) + 1] : s \in 0..(NumSeq - 1)}

AllPlaceholders == [k \in 1..NumSeq |-> PlaceholderResult(k, FirstChallenge)]

InitSeq ==
    /\ players = SeqPlayers
    /\ challenges = <<FirstChallenge>>
    /\ ended = {}
    /\ race_results \in {<<>>, AllPlaceholders}
    /\ db_results = race_results
    /\ active_races = [p \in Players |-> NoSession]
    /\ pc = [i \in Probes |-> "idle"]
    /\ player_id = [i \in Probes |-> NoPlayer]
    /\ challenge = [i \in Probes |-> NoChallenge]
    /\ is_race = [i \in Probes |-> FALSE]
    /\ last_hop_geo = [i \in Probes |-> NoGeo]
    /\ total_hops = [i \in Probes |-> 0]
    /\ outcome = [i \in Probes |-> NoOutcome]
    /\ placeholder_index = [i \in Probes |-> NoIndex]
    /\ bcast = <<>>
    /\ begun = 0
    /\ arrival \in Rotations
    /\ arrived = 0
    /\ traced = {}
    /\ sse = [i \in Probes |-> <<>>]
    /\ db_up = TRUE
    /\ bus_up = TRUE
    /\ LocksOff
    /\ db_challenges = challenges
    /\ max_hops = MaxHops
    /\ hop_trail = <<>>
    /\ ProberOff
    /\ JudgeOff

\* The won branch of the judge for the next participant of arrival, whose
\* last hop lies at lat after hops hops.
SeqFinalize(lat, hops) ==
    LET p == arrival[arrived + 1]
        c == FirstChallenge
        dist == haversine_distance(lat, ChallengeRow(c).city_lat)
    IN  /\ arrived < NumSeq
        /\ WithinRadius(dist, ChallengeRow(c).radius_km)
        /\ race_results' = FinalizeSuccess(race_results, p, c, lat, hops, dist)
        /\ db_results' = DbSaveSuccess(db_results, race_results, p, c, lat, hops, dist)
        /\ bcast' = RaceFinished(SuccessResult(race_results, p, c, lat, hops, dist),
                                 dist)
        /\ arrived' = arrived + 1
        /\ UNCHANGED <<players, challenges, ended, active_races, probeVars,
                       begun, arrival, sse, sideVars>>

NextSeq == \E lat \in Lats, hops \in 1..MaxHops : SeqFinalize(lat, hops)

SpecSeq == InitSeq /\ [][NextSeq]_vars

\* --------------------------------- retries after serialized finalizations
\* The lost branch of the judge for the k-th participant to have finished,
\* who probes again and ends at lat, outside the radius.
SeqFail(k, lat, hops) ==
    LET p == arrival[k]
        c == FirstChallenge
        dist == haversine_distance(lat, ChallengeRow(c).city_lat)
    IN  /\ k <= arrived
        /\ ~WithinRadius(dist, ChallengeRow(c).radius_km)
        /\ race_results' = FinalizeFailure(race_results, p, c, lat, hops, dist)
        /\ db_results' = DbSaveFailure(db_results, race_results, p, c, hops, dist)
        /\ bcast' = <<>>
        /\ UNCHANGED <<players, challenges, ended, active_races, probeVars,
                       begun, seqVars, sse, sideVars>>

NextLate ==
    \/ \E lat \in Lats, hops \in 1..MaxHops : SeqFinalize(lat, hops)
    \/ \E k \in 1..NumSeq, lat \in Lats, hops \in 1..MaxHops : SeqFail(k, lat, hops)

SpecLate == InitSeq /\ [][NextLate]_vars

\* ------------------------------------------------------------- scoreboard
\* The display name under which a participant's records were written; the
\* order of the names is the reverse of the order of the ids.
display_name(p) == NumSeq + 1 - p

\* list.sort(key=...) is stable: an element goes behind its equals.
InsertByRank(r, s) ==
    LET k == Cardinality({j \in 1..Len(s) : s[j].rank <= r.rank})
    IN  SubSeq(s, 1, k) \o <<r>> \o SubSeq(s, k + 1, Len(s))

InsertByName(r, s) ==
    LET k == Cardinality({j \in 1..Len(s) :
                             display_name(s[j].player_id) <= display_name(r.player_id)})
    IN  SubSeq(s, 1, k) \o <<r>> \o SubSeq(s, k + 1, Len(s))

RECURSIVE SortedByRank(_)
SortedByRank(s) ==
    IF s = <<>> THEN <<>>
    ELSE InsertByRank(s[Len(s)], SortedByRank(SubSeq(s, 1, Len(s) - 1)))

RECURSIVE SortedByName(_)
SortedByName(s) ==
    IF s = <<>> THEN <<>>
    ELSE InsertByName(s[Len(s)], SortedByName(SubSeq(s, 1, Len(s) - 1)))

\* The "results" of GET /scoreboard for challenge c.
scoreboard(rr, c) ==
    LET challenge_results == SelectSeq(rr, LAMBDA r : r.challenge_id = c)
        completed_races == SelectSeq(challenge_results, LAMBDA r : r.points > 0)
        placeholder_entries == SelectSeq(challenge_results, LAMBDA r : r.points = 0)
        sorted_results == SortedByRank(completed_races)
                             \o SortedByName(placeholder_entries)
    IN  [j \in 1..Len(sorted_results) |->
            [result |-> sorted_results[j],
             status |-> IF sorted_results[j].points > 0 THEN "completed"
                        ELSE "waiting"]]

\* ------------------------------------------------------------ path prober
\* A line of the tool's output, as far as the patterns of run_traceroute
\* read it: how it begins, the number it begins with, the first dotted quad
\* in it (NoAddr: none), how many "*" columns it has, and how many blanks
\* separate two of them.
NoAddr == 0

ColumnGap == 5

Line(lead, num, addr, stars, gap) ==
    [lead |-> lead, num |-> num, addr |-> addr, stars |-> stars, gap |-> gap]

\* "Tracing route to <target> [a.b.c.d]", "over a maximum of 30 hops:",
\* one row per hop, "Trace complete."
TracertOutput(rows) ==
    <<Line("Tracing route", 0, Len(rows) + 1, 0, 0), Line("over a maximum", 0, NoAddr, 0, 0)>>
    \o [k \in 1..Len(rows) |->
           IF rows[k] THEN Line("row", k, k, 0, 0)
           ELSE Line("row", k, NoAddr, 3, ColumnGap)]
    \o <<Line("Trace complete", 0, NoAddr, 0, 0)>>

\* "traceroute to <target> (a.b.c.d), 30 hops max", one row per hop (-q 1).
TracerouteOutput(rows) ==
    <<Line("traceroute to", 0, Len(rows) + 1, 0, 0)>>
    \o [k \in 1..Len(rows) |->
           IF rows[k] THEN Line("row", k, k, 0, 0)
           ELSE Line("row", k, NoAddr, 1, 0)]

\* IPV4_RE.search(line)
HasAddr(line) == line.addr # NoAddr

\* re.search(r"\s\*\s\*\s\*", line): three stars, one blank between two.
ThreeStars(line) == line.stars >= 3 /\ line.gap = 1

\* re.match(r"\s*(\d+)\s+(.+)", line)
HopMatch(line) == line.lead = "row"

RowSets == UNION {[1..n -> BOOLEAN] : n \in 0..MaxRows}

InitProber ==
    /\ Started
    /\ traced = {}
    /\ max_hops = MaxHops
    /\ hop_trail = <<>>
    /\ JudgeOff
    /\ tr_system \in {"windows", "linux"}
    /\ tr_rows \in RowSets
    /\ tr_lines = IF tr_system = "windows" THEN TracertOutput(tr_rows)
                  ELSE TracerouteOutput(tr_rows)
    /\ tr_pos = 1
    /\ tr_hop = 0
    /\ tr_out = <<>>

\* One turn of "for line in proc.stdout" of the tracert branch.
ReadTracert ==
    LET line == tr_lines[tr_pos]
    IN  /\ tr_system = "windows"
        /\ tr_pos <= Len(tr_lines)
        /\ IF line.lead \in {"Tracing route", "over a maximum"}
           THEN /\ tr_pos' = tr_pos + 1
                /\ UNCHANGED <<tr_hop, tr_out>>
           ELSE IF line.lead = "Unable to resolve"
           THEN /\ tr_pos' = Len(tr_lines) + 1
                /\ UNCHANGED <<tr_hop, tr_out>>
           ELSE IF HasAddr(line)
           THEN /\ tr_hop' = tr_hop + 1
                /\ tr_out' = Append(tr_out, [hop |-> tr_hop + 1, ip |-> line.addr])
                /\ tr_pos' = tr_pos + 1
           ELSE IF ThreeStars(line)
           THEN /\ tr_hop' = tr_hop + 1
                /\ tr_out' = Append(tr_out, [hop |-> tr_hop + 1, ip |-> NoAddr])
                /\ tr_pos' = tr_pos + 1
           ELSE /\ tr_pos' = tr_pos + 1
                /\ UNCHANGED <<tr_hop, tr_out>>
        /\ UNCHANGED <<players, challenges, ended, race_results, db_results,
                       active_races, probeVars, bcast, begun, seqVars, sse,
                       traced, db_up, bus_up, lockVars, hop_trail, db_challenges,
                       max_hops, tr_system, tr_rows, tr_lines,
                       judgeVars>>

\* One turn of "for line in proc.stdout" of the traceroute branch.
ReadTraceroute ==
    LET line == tr_lines[tr_pos]
    IN  /\ tr_system = "linux"
        /\ tr_pos <= Len(tr_lines)
        /\ tr_pos' = tr_pos + 1
        /\ IF ~HopMatch(line)
           THEN UNCHANGED <<tr_hop, tr_out>>
           ELSE /\ tr_hop' = line.num
                /\ tr_out' = Append(tr_out, [hop |-> line.num, ip |-> line.addr])
        /\ UNCHANGED <<players, challenges, ended, race_results, db_results,
                       active_races, probeVars, bcast, begun, seqVars, sse,
                       traced, db_up, bus_up, lockVars, hop_trail, db_challenges,
                       max_hops, tr_system, tr_rows, tr_lines,
                       judgeVars>>

NextProber == ReadTracert \/ ReadTraceroute

SpecProber == InitProber /\ [][NextProber]_vars

\* ------------------------------------------------------------ one judgement
Coords == (0 - MaxCoord)..MaxCoord

InitJudge ==
    /\ Started
    /\ traced = {}
    /\ max_hops = MaxHops
    /\ hop_trail = <<>>
    /\ ProberOff
    /\ jd_in \in [lat : Coords, city_lat : Coords, radius_km : 0..MaxCoord]
    /\ jd_out = "none"

\* The branch the judge takes for a race-mode probe with a located last hop.
JudgeOnce ==
    LET distance == haversine_distance(jd_in.lat, jd_in.city_lat)
    IN  /\ jd_out = "none"
        /\ jd_out' = IF WithinRadius(distance, jd_in.radius_km)
                     THEN "race_success" ELSE "race_failed"
        /\ UNCHANGED <<players, challenges, ended, race_results, db_results,
                       active_races, probeVars, bcast, begun, seqVars, sse,
                       traced, db_up, bus_up, lockVars, hop_trail, db_challenges,
                       max_hops, proberVars, jd_in>>

SpecJudge == InitJudge /\ [][JudgeOnce]_vars

\* ------------------------------------------- what the probe depends on
\* One client's probes while the traceroute binary may fail to start and
\* the socketio server may refuse to publish.

\* subprocess.Popen raises (no such file, no more processes) when the for
\* loop asks run_traceroute for its first hop: the exception leaves the
\* response generator after the start event.
LaunchFails(i) ==
    /\ pc[i] = "hops"
    /\ total_hops[i] = 0
    /\ Terminated(i)
    /\ bcast' = <<>>
    /\ UNCHANGED <<players, challenges, ended, race_results, db_results,
                   active_races, begun, seqVars, sse, sideVars>>

\* socketio.emit starts raising (its message queue is gone), or stops.
BusFault ==
    /\ bus_up' = ~bus_up
    /\ bcast' = <<>>
    /\ UNCHANGED <<players, challenges, ended, race_results, db_results,
                   active_races, probeVars, begun, seqVars, sse, traced, db_up,
                   max_hops, proberVars, judgeVars, lockVars, hop_trail,
                   db_challenges>>

NextFaults ==
    \/ Register(TracedPlayer)
    \/ CreateChallenge
    \/ \E c \in ChallengeIds : EndWindow(c)
    \/ \E cookie \in players \cup {NoPlayer, StaleCookie} : Begin(TracedProbe, cookie)
    \/ \E answered \in BOOLEAN, g \in Lats \cup {NoGeo} : Hop(TracedProbe, answered, g)
    \/ Judge(TracedProbe)
    \/ Cleanup(TracedProbe)
    \/ Disconnect(TracedProbe)
    \/ LaunchFails(TracedProbe)
    \/ BusFault

SpecFaults == InitStream /\ [][NextFaults]_vars

\* ------------------------------------------------ one probe's hop trail
\* One client's probes over longer paths, with what the prober and the
\* geolocation gave at every hop kept beside the generator's locals.
MaxTrackHops == 3

InitTrack ==
    /\ Started
    /\ traced = {}
    /\ max_hops = MaxTrackHops
    /\ hop_trail = [i \in {TracedProbe} |-> <<>>]
    /\ ProberOff
    /\ JudgeOff

NextTrack ==
    \/ Register(TracedPlayer)
    \/ CreateChallenge
    \/ \E c \in ChallengeIds : EndWindow(c)
    \/ \E cookie \in players \cup {NoPlayer, StaleCookie} : Begin(TracedProbe, cookie)
    \/ \E answered \in BOOLEAN, g \in Lats \cup {NoGeo} : Hop(TracedProbe, answered, g)
    \/ Judge(TracedProbe)
    \/ Cleanup(TracedProbe)
    \/ Disconnect(TracedProbe)

SpecTrack == InitTrack /\ [][NextTrack]_vars

\* ------------------------------------------------------- challenge mode
\* POST /challenge/toggle beside one client's probes and the registrations.
MaxLoaded == 4

\* challenges[challenge.id] = challenge for every row of the table: a key the
\* dict has keeps its place, a new one goes to the end.
LoadChallenges(chs, rows) ==
    chs \o SelectSeq(rows, LAMBDA c : ~\E k \in 1..Len(chs) : chs[k] = c)

\* race_results.append(result) for every row of the table race_results.  The
\* rows come ORDER BY finish_time; the records here carry no finish_time and
\* come in rowid order.
LoadResults(rr, rows) == rr \o rows

\* load_data_from_db, called again by the enabling toggle.  The players it
\* reads are in the dict already.
ToggleChallenge(enable) ==
    /\ enable => Len(race_results) + Len(db_results) <= MaxLoaded
    /\ challenges' = IF enable THEN LoadChallenges(challenges, db_challenges)
                     ELSE <<>>
    /\ race_results' = IF enable THEN LoadResults(race_results, db_results)
                       ELSE race_results
    /\ bcast' =
          IF bus_up
          THEN <<[type |-> "challenge_mode_changed", result |-> NoRecord,
                  distance_km |-> 0]>>
          ELSE <<>>
    /\ UNCHANGED <<players, ended, db_results, active_races, probeVars, begun,
                   seqVars, sse, sideVars>>

NextToggle ==
    \/ \E p \in Players : Register(p)
    \/ CreateChallenge
    \/ \E cookie \in players \cup {NoPlayer, StaleCookie} : Begin(TracedProbe, cookie)
    \/ \E answered \in BOOLEAN, g \in Lats \cup {NoGeo} : Hop(TracedProbe, answered, g)
    \/ Judge(TracedProbe)
    \/ Cleanup(TracedProbe)
    \/ \E enable \in BOOLEAN : ToggleChallenge(enable)

SpecToggle == Init /\ [][NextToggle]_vars

\* ------------------------------------------------ the handlers' locking
\* Request threads run the handlers side by side; only their lock
\* operations are followed here.
appVars == <<players, challenges, ended, race_results, db_results, active_races,
             probeVars, bcast, begun, seqVars, sse, traced, db_up, bus_up,
             max_hops, proberVars, judgeVars, hop_trail, db_challenges>>

InScript(r) == rq_kind[r] # "none" /\ rq_pos[r] <= Len(LockScript(rq_kind[r]))

NextOp(r) == LockScript(rq_kind[r])[rq_pos[r]]

\* A request for the handler kind arrives on a free thread.
Arrive(r, kind) ==
    /\ rq_kind[r] = "none"
    /\ rq_kind' = [rq_kind EXCEPT ![r] = kind]
    /\ rq_pos' = [rq_pos EXCEPT ![r] = 1]
    /\ UNCHANGED <<lk_owner, appVars>>

\* Lock.acquire(): returns once the lock is free, and takes it.
AcquireLock(r) ==
    /\ InScript(r)
    /\ NextOp(r).op = "acquire"
    /\ lk_owner[NextOp(r).lock] = NoRequest
    /\ lk_owner' = [lk_owner EXCEPT ![NextOp(r).lock] = r]
    /\ rq_pos' = [rq_pos EXCEPT ![r] = @ + 1]
    /\ UNCHANGED <<rq_kind, appVars>>

\* Lock.release() at the end of the with block.
ReleaseLock(r) ==
    /\ InScript(r)
    /\ NextOp(r).op = "release"
    /\ lk_owner' = [lk_owner EXCEPT ![NextOp(r).lock] = NoRequest]
    /\ rq_pos' = [rq_pos EXCEPT ![r] = @ + 1]
    /\ UNCHANGED <<rq_kind, appVars>>

\* The handler returns its response.
Return(r) ==
    /\ rq_kind[r] # "none"
    /\ rq_pos[r] > Len(LockScript(rq_kind[r]))
    /\ rq_kind' = [rq_kind EXCEPT ![r] = "none"]
    /\ rq_pos' = [rq_pos EXCEPT ![r] = 0]
    /\ UNCHANGED <<lk_owner, appVars>>

NextLocks ==
    \/ \E r \in Requests, kind \in RequestKinds : Arrive(r, kind)
    \/ \E r \in Requests : AcquireLock(r)
    \/ \E r \in Requests : ReleaseLock(r)
    \/ \E r \in Requests : Return(r)

SpecLocks == Init /\ [][NextLocks]_vars

\* ----------------------------------------------------------------- claims
IndicesOf(rr, p, c) == {k \in 1..Len(rr) : Matches(rr[k], p, c)}

IsPlaceholder(r) == r.rank = Sentinel /\ r.points = 0

\* Probe i takes the won, respectively the lost, branch of the judge.
WonStep(i) ==
    pc[i] = "hops" /\ pc'[i] = "outcome" /\ outcome'[i].type = "race_success"

LostStep(i) ==
    pc[i] = "hops" /\ pc'[i] = "outcome" /\ outcome'[i].type = "race_failed"

\* C1: no two different participants hold the same assigned rank on one
\* challenge, whatever the order in which their finalizations take the lock.
C1_NoSharedRank ==
    \A j, k \in 1..Len(race_results) :
        ( /\ race_results[j].player_id # race_results[k].player_id
          /\ race_results[j].challenge_id = race_results[k].challenge_id
          /\ race_results[j].rank # Sentinel
          /\ race_results[k].rank # Sentinel )
        => race_results[j].rank # race_results[k].rank

\* C2: after N finalizations one after another by N distinct participants the
\* assigned ranks are exactly 1..N, none used twice, and every record's points
\* are max(0, 10 - (rank - 1)).
C2_SequentialRanks ==
    LET fin == {k \in 1..Len(race_results) : race_results[k].rank # Sentinel}
    IN  /\ {race_results[k].rank : k \in fin} = 1..arrived
        /\ Cardinality(fin) = arrived
        /\ \A k \in fin :
              race_results[k].points = Max(0, 10 - (race_results[k].rank - 1))

\* C3: the leaderboard holds at most one record per (participant, challenge).
C3_OneRecordPerPair ==
    \A j, k \in 1..Len(race_results) :
        Matches(race_results[j], race_results[k].player_id,
                race_results[k].challenge_id) => j = k

C5_FailThenSuccessReplaces ==
    [][\A i \in Probes :
          LET p == player_id[i]
              c == challenge[i]
              own == IndicesOf(race_results, p, c)
          IN  ( /\ WonStep(i)
                /\ Cardinality(own) = 1
                /\ \A k \in own : /\ IsPlaceholder(race_results[k])
                                  /\ race_results[k].total_hops > 0 )
              => /\ Len(race_results') = Len(race_results)
                 /\ IndicesOf(race_results', p, c) = own
                 /\ \A k \in own :
                       /\ race_results'[k].rank # Sentinel
                       /\ race_results'[k].rank = outcome'[i].rank
                       /\ race_results'[k].final_hop_lat = last_hop_geo[i]
                 /\ \A k \in 1..Len(race_results) :
                       k \notin own => race_results'[k] = race_results[k]]_vars

\* Two probes of one participant: the lost one updated the placeholder, the
\* won one then replaced it at the same index, and it is the pair's one record.
C5_Witness ==
    \E i, j \in Probes :
        /\ pc[i] = "outcome" /\ outcome[i].type = "race_success"
        /\ pc[j] = "outcome" /\ outcome[j].type = "race_failed"
        /\ player_id[i] = player_id[j] /\ challenge[i] = challenge[j]
        /\ placeholder_index[j] # NoIndex
        /\ placeholder_index[i] = placeholder_index[j]
        /\ IndicesOf(race_results, player_id[i], challenge[i]) = {placeholder_index[i]}
        /\ race_results[placeholder_index[i]].rank = outcome[i].rank

\* C6: a failed arrival of a participant who has a placeholder writes the
\* attempt's distance and hop count into it, leaves its rank at the sentinel
\* and its points at zero, and neither adds nor removes a record.
C6_FailureOverwritesPlaceholder ==
    [][\A i \in Probes :
          LET p == player_id[i]
              c == challenge[i]
              own == {k \in IndicesOf(race_results, p, c) :
                         IsPlaceholder(race_results[k])}
          IN  (LostStep(i) /\ own # {})
              => /\ Len(race_results') = Len(race_results)
                 /\ \E k \in own :
                       /\ race_results'[k].rank = Sentinel
                       /\ race_results'[k].points = 0
                       /\ race_results'[k].player_id = p
                       /\ race_results'[k].challenge_id = c
                       /\ race_results'[k].total_hops = total_hops[i]
                       /\ race_results'[k].distance_from_target_km =
                             outcome'[i].distance_km
                       /\ race_results'[k].distance_from_target_km >
                             ChallengeRow(c).radius_km
                       /\ \A j \in 1..Len(race_results) :
                             j # k => race_results'[j] = race_results[j]]_vars

\* Two failed attempts of one participant have both written the placeholder.
C6_Witness ==
    \E i, j \in Probes :
        /\ i # j
        /\ pc[i] = "outcome" /\ outcome[i].type = "race_failed"
        /\ pc[j] = "outcome" /\ outcome[j].type = "race_failed"
        /\ player_id[i] = player_id[j] /\ challenge[i] = challenge[j]
        /\ placeholder_index[i] # NoIndex
        /\ placeholder_index[i] = placeholder_index[j]
        /\ IsPlaceholder(race_results[placeholder_index[i]])
        /\ race_results[placeholder_index[i]].total_hops > 0

\* C7: a failed arrival of a participant without a record for the challenge
\* appends one, with the sentinel rank, zero points and the attempt's data.
C7_FailureCreatesRecord ==
    [][\A i \in Probes :
          (LostStep(i) /\ IndicesOf(race_results, player_id[i], challenge[i]) = {})
          => /\ Len(race_results') = Len(race_results) + 1
             /\ race_results'[Len(race_results')] =
                   RaceResult(player_id[i], challenge[i], Sentinel, 0,
                              last_hop_geo[i], total_hops[i],
                              outcome'[i].distance_km)]_vars

\* C8: a step appends a fresh placeholder only for a pair that had no record,
\* and it emits player_joined for that placeholder exactly when it does so.
C8_PlaceholderOnceAndJoined ==
    [][LET n == Len(race_results)
           created == /\ Len(race_results') = n + 1
                      /\ IsPlaceholder(race_results'[n + 1])
           joined == /\ bcast' # <<>>
                     /\ bcast'[1].type = "player_joined"
       IN  /\ created <=> joined
           /\ Len(race_results') > n => Len(race_results') = n + 1
           /\ created =>
                 /\ IndicesOf(race_results, race_results'[n + 1].player_id,
                              race_results'[n + 1].challenge_id) = {}
                 /\ bcast'[1].result = race_results'[n + 1]
                 /\ race_results'[n + 1].challenge_id = get_active_challenge
                 /\ race_results'[n + 1].player_id \in players']_vars

\* A registration has just created and announced a placeholder that is not the
\* first record of the list, for a participant who is its only record's owner.
C8_Witness ==
    /\ bcast # <<>>
    /\ bcast[1].type = "player_joined"
    /\ Len(race_results) >= 2
    /\ race_results[Len(race_results)] = bcast[1].result
    /\ Cardinality(IndicesOf(race_results, bcast[1].result.player_id,
                             bcast[1].result.challenge_id)) = 1

\* C9: a probe in race mode has a record for its (participant, challenge).
C9_RecordWhenRacing ==
    \A i \in Probes :
        (pc[i] # "idle" /\ is_race[i])
        => ExistingResult(race_results, player_id[i], challenge[i])

\* C10: when a race-mode probe's stream ends, by its end event or by the
\* client's disconnect, the session map holds no entry for its participant.
C10_NoSessionAfterStream ==
    [][\A i \in Probes :
          (pc[i] # "idle" /\ pc'[i] = "idle" /\ is_race[i])
          => active_races'[player_id[i]] = NoSession]_vars

\* What the client of probe i received last, if anything.
LastType(i) == IF sse[i] = <<>> THEN "none" ELSE sse[i][Len(sse[i])].type

\* C11: a probe whose client stays connected eventually receives the end
\* event: once the stream has started, the client's log comes to end with the
\* end event unless the client itself has closed the stream.
C11_EndEventuallyReceived ==
    \A i \in Probes :
        (i \in traced /\ pc[i] = "hops") ~> (LastType(i) \in {"end", "closed"})

OutcomeTypes == {"race_success", "race_failed", "distance_feedback"}

\* The events of a log, without the client's own closing note.
Received(log) == IF Closed(log) THEN SubSeq(log, 1, Len(log) - 1) ELSE log

\* start, then the hops 1, 2, ... in order, then at most one outcome event,
\* then at most one end event, which is the last.
Ordered(log) ==
    \/ log = <<>>
    \/ /\ log[1] = StartEvent
       /\ LET h == Cardinality({k \in 1..Len(log) : log[k].type = "hop"})
              rest == SubSeq(log, h + 2, Len(log))
          IN  /\ \A k \in 1..h : log[k + 1] = [type |-> "hop", hop |-> k]
              /\ \/ rest = <<>>
                 \/ Len(rest) = 1 /\ rest[1].type \in OutcomeTypes \cup {"end"}
                 \/ /\ Len(rest) = 2
                    /\ rest[1].type \in OutcomeTypes
                    /\ rest[2].type = "end"

C13_RaceFinishedOncePerSuccess ==
    [][LET fin == bcast' # <<>> /\ bcast'[1].type = "race_finished"
       IN  /\ fin <=> \E i \in Probes : WonStep(i)
           /\ fin => Len(bcast') = 1
           /\ \A i \in Probes :
                 WonStep(i) =>
                    /\ outcome[i] = NoOutcome
                    /\ bcast'[1].result.player_id = player_id[i]
                    /\ bcast'[1].result.challenge_id = challenge[i]
                    /\ bcast'[1].result.rank = outcome'[i].rank
                    /\ bcast'[1].result.points = outcome'[i].points
                    /\ bcast'[1].result.rank # Sentinel
                    /\ \E k \in 1..Len(race_results') :
                          race_results'[k] = bcast'[1].result
                    /\ \E k \in 1..Len(db_results') :
                          db_results'[k] = bcast'[1].result
           /\ \A i \in Probes : LostStep(i) => ~fin]_vars

\* The second finisher of a challenge has just been announced: the broadcast
\* carries rank 2 and the probe stands at its success event.
C13_Witness ==
    /\ bcast # <<>>
    /\ bcast[1].type = "race_finished"
    /\ bcast[1].result.rank = 2
    /\ \E i \in Probes :
          /\ pc[i] = "outcome"
          /\ outcome[i].type = "race_success"
          /\ outcome[i].rank = 2
          /\ player_id[i] = bcast[1].result.player_id
    /\ \E k \in 1..Len(race_results) : race_results[k] = bcast[1].result

\* C14: once the client has closed the stream while the hops were still
\* coming, no later step of that probe changes the leaderboard records or
\* emits race_finished.
C14_CancelledNeverFinalizes ==
    [][\A i \in Probes :
          ( /\ i \in traced
            /\ Closed(sse[i])
            /\ pc[i] = "hops"
            /\ <<pc[i], total_hops[i]>> # <<pc'[i], total_hops'[i]>> )
          => /\ race_results' = race_results
             /\ ~(bcast' # <<>> /\ bcast'[1].type = "race_finished")]_vars

\* C15: the scoreboard of the challenge lists the records with points > 0 by
\* ascending rank, then the records with points = 0 by name, tags an entry
\* completed exactly when its points are > 0, and so lists every participant
\* who has arrived as completed and ahead of everyone who has not.
C15_ScoreboardOrder ==
    LET board == scoreboard(race_results, FirstChallenge)
        n == Len(board)
        done == {arrival[k] : k \in 1..arrived}
    IN  /\ n = Cardinality({k \in 1..Len(race_results) :
                               race_results[k].challenge_id = FirstChallenge})
        /\ \A j \in 1..n :
              /\ board[j].status = "completed" <=> board[j].result.points > 0
              /\ board[j].status = "waiting" <=> board[j].result.points = 0
        /\ \A j, k \in 1..n :
              j < k =>
                 /\ board[k].status = "completed" => board[j].status = "completed"
                 /\ board[k].status = "completed" =>
                       board[j].result.rank <= board[k].result.rank
                 /\ board[j].status = "waiting" =>
                       display_name(board[j].result.player_id)
                          <= display_name(board[k].result.player_id)
        /\ \A j \in 1..n :
              board[j].result.player_id \in done =>
                 /\ board[j].status = "completed"
                 /\ \A k \in 1..n :
                       board[k].result.player_id \notin done => j < k

\* C16: a record that has been given a rank stays where it is with that rank
\* and its owner, whatever step follows, and the list never gets shorter.
C16_FinalizedRecordsKept ==
    [][/\ Len(race_results') >= Len(race_results)
       /\ \A k \in 1..Len(race_results) :
             race_results[k].rank # Sentinel =>
                /\ k <= Len(race_results')
                /\ race_results'[k].player_id = race_results[k].player_id
                /\ race_results'[k].challenge_id = race_results[k].challenge_id
                /\ race_results'[k].rank = race_results[k].rank]_vars

\* How often the sequence holds exactly this record.
Count(seq, r) == Cardinality({k \in 1..Len(seq) : seq[k] = r})

\* C17: between two steps the rows of the table are the records of the list,
\* field for field: each record occurs as often in the one as in the other.
C17_DurableEqualsMemory ==
    /\ Len(db_results) = Len(race_results)
    /\ \A k \in 1..Len(race_results) :
          Count(db_results, race_results[k]) = Count(race_results, race_results[k])

\* C18: when sqlite refuses the write of a won race, the step yields no
\* race_success, emits no race_finished, and leaves no finalized record of
\* the pair in the list that is not in the table.
C18_FailedWriteReported ==
    [][\A i \in Probes :
          ( /\ pc[i] = "hops"
            /\ pc'[i] # "hops"
            /\ Judged(i)
            /\ Inside(i)
            /\ ~db_up )
          => /\ outcome'[i].type # "race_success"
             /\ ~(bcast' # <<>> /\ bcast'[1].type = "race_finished")
             /\ \A k \in IndicesOf(race_results', player_id[i], challenge[i]) :
                   race_results'[k].rank # Sentinel =>
                      Count(db_results', race_results'[k]) > 0]_vars

\* C19: a judgement yields race_success exactly when the distance between
\* the last located hop and the target is at most the radius, the distance
\* equal to the radius included, and race_failed exactly when it is greater.
C19_InclusiveRadius ==
    LET d == Max(jd_in.lat - jd_in.city_lat, jd_in.city_lat - jd_in.lat)
    IN  jd_out # "none" =>
           /\ jd_out \in {"race_success", "race_failed"}
           /\ jd_out = "race_success" <=> d <= jd_in.radius_km
           /\ jd_out = "race_failed" <=> d > jd_in.radius_km

\* A judgement at a distance equal to a nonzero radius has yielded success.
C19_Witness ==
    /\ jd_out = "race_success"
    /\ jd_in.radius_km > 0
    /\ Max(jd_in.lat - jd_in.city_lat, jd_in.city_lat - jd_in.lat) = jd_in.radius_km

\* The hop rows among the lines the loop has read.
RowsRead == {k \in 1..(tr_pos - 1) : tr_lines[k].lead = "row"}

\* C20: the prober has yielded one element per hop row read, the k-th with
\* hop index k, carrying the row's address, or no address for a row without
\* an answer.
C20_HopIndicesConsecutive ==
    /\ Len(tr_out) = Cardinality(RowsRead)
    /\ \A k \in 1..Len(tr_out) :
          /\ tr_out[k].hop = k
          /\ tr_out[k].ip = IF tr_rows[k] THEN k ELSE NoAddr

\* C21: a probe's judgement writes the leaderboard (the won or the lost
\* branch is taken) only if the probe runs in race mode, its participant
\* still has a session, a hop was located and the challenge is known.
C21_JudgedOnlyWithSession ==
    [][\A i \in Probes :
          (WonStep(i) \/ LostStep(i))
          => /\ is_race[i]
             /\ last_hop_geo[i] # NoGeo
             /\ challenge[i] # NoChallenge
             /\ active_races[player_id[i]] # NoSession]_vars

\* C22: a probe takes the won branch, and so gives a rank, only while the
\* window of its challenge still contains the current time.
C22_RankOnlyWhileActive ==
    [][\A i \in Probes :
          WonStep(i)
          => /\ challenge[i] \notin ended
             /\ \E k \in 1..Len(challenges) : challenges[k] = challenge[i]]_vars

\* C23: a record with a rank has points > 0, and a record with zero points
\* has the sentinel rank.
C23_ZeroPointsIffUnfinished ==
    \A k \in 1..Len(race_results) :
        /\ race_results[k].rank # Sentinel => race_results[k].points > 0
        /\ race_results[k].points = 0 => race_results[k].rank = Sentinel

\* The records of rr that belong to a participant other than p are found,
\* unchanged and at the same places, in rr2, and rr2 adds none of theirs.
OthersKept(rr, rr2, p) ==
    /\ Len(rr2) >= Len(rr)
    /\ \A k \in 1..Len(rr) : rr[k].player_id # p => rr2[k] = rr[k]
    /\ \A k \in (Len(rr) + 1)..Len(rr2) : rr2[k].player_id = p

\* C24: the won or lost arrival of one participant leaves every record of
\* every other participant as it was, in race_results and in the sqlite
\* rows; and a record changes only by an arrival of its own participant, so
\* the placeholder of a participant who never arrives stays a placeholder.
C24_ArrivalTouchesOwnRecordOnly ==
    [][/\ \A i \in Probes :
             (WonStep(i) \/ LostStep(i))
             => /\ OthersKept(race_results, race_results', player_id[i])
                /\ OthersKept(db_results, db_results', player_id[i])
       /\ \A k \in 1..Len(race_results) :
             /\ k <= Len(race_results')
             /\ race_results'[k] # race_results[k]
                => \E i \in Probes :
                      /\ WonStep(i) \/ LostStep(i)
                      /\ player_id[i] = race_results[k].player_id]_vars

\* One participant has just been ranked while another still holds the
\* placeholder of the same challenge, in memory and in sqlite.
C24_Witness ==
    /\ bcast # <<>>
    /\ bcast[1].type = "race_finished"
    /\ \E j, k \in 1..Len(race_results) :
          /\ race_results[j].player_id # race_results[k].player_id
          /\ race_results[j].challenge_id = race_results[k].challenge_id
          /\ race_results[j] = bcast[1].result
          /\ IsPlaceholder(race_results[k])
          /\ \E m \in 1..Len(db_results) : db_results[m] = race_results[k]

\* The lock families in an order that every nested with block of the
\* handlers follows: players before races and sqlite, challenges and results
\* before sqlite.
LockOrder ==
    <<"players_lock", "challenges_lock", "results_lock", "races_lock", "db_lock">>

LockRank(l) == CHOOSE k \in 1..Len(LockOrder) : LockOrder[k] = l

Held(r) == {l \in Locks : lk_owner[l] = r}

\* The request stands at an acquire of a lock that is taken.
Waiting(r) ==
    InScript(r) /\ NextOp(r).op = "acquire" /\ lk_owner[NextOp(r).lock] # NoRequest

\* C25: a request acquires a lock only while the locks it holds come earlier
\* in the one fixed order (so never one it already holds), and there is no
\* set of requests each waiting for a lock held inside the set: no request
\* waits for a lock forever.
C25_NoLockWaitsForever ==
    /\ \A r \in Requests :
          (InScript(r) /\ NextOp(r).op = "acquire")
          => \A h \in Held(r) : LockRank(h) < LockRank(NextOp(r).lock)
    /\ \A S \in (SUBSET Requests) \ {{}} :
          ~(\A r \in S : Waiting(r) /\ lk_owner[NextOp(r).lock] \in S)

\* The generator of probe i ends at the first request for a hop without
\* having sent anything: the tool could not be started.
LaunchFailed(i) ==
    /\ pc[i] = "hops"
    /\ total_hops[i] = 0
    /\ pc'[i] = "idle"
    /\ sse'[i] = sse[i]

\* C26: when the traceroute tool cannot be started, the probe's participant
\* has no session in active_races afterwards.
C26_NoSessionAfterLaunchFailure ==
    [][\A i \in Probes :
          (LaunchFailed(i) /\ player_id[i] \in Players)
          => active_races'[player_id[i]] = NoSession]_vars

\* C27: a won race whose race_finished cannot be published still sends
\* race_success to its client and goes on to the cleanup and the end event.
C27_PublishFailureKeepsFlow ==
    [][\A i \in Probes :
          ( /\ pc[i] = "hops"
            /\ Judged(i) /\ Inside(i)
            /\ ~bus_up
            /\ pc'[i] # "hops"
            /\ ~Closed(sse'[i]) )
          => /\ pc'[i] = "outcome"
             /\ outcome'[i].type = "race_success"
             /\ sse'[i] = Append(sse[i], OutcomeEvent("race_success"))]_vars

\* The generator of probe i leaves the hop loop with its client connected,
\* outside race mode, holding a cookie, a challenge and a located hop.
FeedbackCase(i) ==
    /\ pc[i] = "hops"
    /\ pc'[i] # "hops"
    /\ ~Closed(sse'[i])
    /\ ~is_race[i]
    /\ player_id[i] # NoPlayer
    /\ challenge[i] # NoChallenge
    /\ last_hop_geo[i] # NoGeo

\* C28: a probe outside race mode that has a participant id, a challenge
\* and a located final hop sends distance_feedback, to its client only.
C28_FeedbackWithoutRace ==
    [][\A i \in Probes :
          FeedbackCase(i)
          => /\ sse'[i] = Append(sse[i], OutcomeEvent("distance_feedback"))
             /\ bcast' = <<>>]_vars

\* No probe ever yields distance_feedback: the branch needs a cookie that is
\* in players at exhaustion and was not at the request, with a challenge
\* active at the request, and register gives a new participant a fresh id.
FeedbackNeverSent ==
    \A i \in Probes :
        /\ outcome[i].type # "distance_feedback"
        /\ \A k \in 1..Len(sse[i]) : sse[i][k].type # "distance_feedback"

\* The probe has no race context: it is not in race mode (no known
\* participant or no active challenge at its request) or no hop was located.
NoRaceContext(i) ==
    \/ ~is_race[i]
    \/ player_id[i] = NoPlayer
    \/ challenge[i] = NoChallenge
    \/ last_hop_geo[i] = NoGeo

\* C29: when the generator of a probe without race context moves on from
\* the hop loop or from its outcome event, race_results and the sqlite rows
\* stay as they are and nothing is published.
C29_NoRaceLeavesLeaderboard ==
    [][\A i \in Probes :
          (pc[i] # "idle" /\ pc'[i] # pc[i] /\ NoRaceContext(i))
          => /\ race_results' = race_results
             /\ db_results' = db_results
             /\ bcast' = <<>>]_vars

\* A probe has run from start to end without an outcome event while the
\* leaderboard of a challenge holds a record.
C29_Witness ==
    /\ race_results # <<>>
    /\ Len(sse[TracedProbe]) > 2
    /\ sse[TracedProbe][Len(sse[TracedProbe])] = EndEvent
    /\ \A k \in 1..Len(sse[TracedProbe]) : sse[TracedProbe][k].type \notin OutcomeTypes

\* Probe i, in race mode, receives a located hop while its participant has
\* no session: another probe of the same participant has released it.
HopWithoutSession(i) ==
    /\ pc[i] = "hops"
    /\ is_race[i]
    /\ active_races[player_id[i]] = NoSession
    /\ total_hops'[i] = total_hops[i] + 1
    /\ last_hop_geo'[i] # NoGeo

\* C30: recording a hop for a participant whose session was removed changes
\* nothing in active_races, and the probe stays in its hop loop with the hop
\* counted.
C30_RecordHopToleratesRemoval ==
    [][\A i \in Probes :
          HopWithoutSession(i)
          => /\ active_races' = active_races
             /\ pc'[i] = "hops"
             /\ is_race'[i]]_vars

\* A probe in race mode stands in its hop loop before its first hop while
\* its participant has no session and no other probe is running: the session
\* it wrote at its request was released by a probe of the same participant
\* that has ended, and the hop it reads next has no session to go to.
C30_Witness ==
    \E i \in Probes :
        /\ pc[i] = "hops"
        /\ is_race[i]
        /\ total_hops[i] = 0
        /\ total_hops[i] < max_hops
        /\ active_races[player_id[i]] = NoSession
        /\ \A j \in Probes \ {i} : pc[j] = "idle"

\* The position of the last hop of a trail that has one, and the index of
\* the last hop of the trail.
RECURSIVE LastLocated(_)
LastLocated(trail) ==
    IF trail = <<>> THEN NoGeo
    ELSE IF trail[Len(trail)].geo # NoGeo THEN trail[Len(trail)].geo
    ELSE LastLocated(SubSeq(trail, 1, Len(trail) - 1))

LastIndex(trail) == IF trail = <<>> THEN 0 ELSE trail[Len(trail)].hop

\* The records a step has written: the changed and the appended ones.
Written(rr, rr2) ==
    {rr2[k] : k \in {j \in 1..Len(rr2) : j > Len(rr) \/ rr2[j] # rr[j]}}

\* C31: while a probe reads hops its last_hop_geo is the position of the last
\* hop that was located, whatever came after it, and its total_hops is the
\* index of the last hop read; the judgement measures its distance from that
\* position, and the record it writes carries that position and that index.
C31_LastLocatedHopIsJudged ==
    [][\A i \in DOMAIN hop_trail :
          /\ pc[i] = "hops"
             => /\ last_hop_geo[i] = LastLocated(hop_trail[i])
                /\ total_hops[i] = LastIndex(hop_trail[i])
          /\ (WonStep(i) \/ LostStep(i))
             => /\ LastLocated(hop_trail[i]) # NoGeo
                /\ outcome'[i].distance_km =
                      haversine_distance(LastLocated(hop_trail[i]),
                                         ChallengeRow(challenge[i]).city_lat)
                /\ \A r \in Written(race_results, race_results') :
                      /\ r.final_hop_lat = LastLocated(hop_trail[i])
                      /\ r.total_hops = LastIndex(hop_trail[i])]_vars

\* A race was won by a probe whose first hop was located away from the
\* target, whose second was located at it and whose third had no position.
C31_Witness ==
    /\ TracedProbe \in DOMAIN hop_trail
    /\ pc[TracedProbe] = "outcome"
    /\ outcome[TracedProbe].type = "race_success"
    /\ Len(hop_trail[TracedProbe]) = MaxTrackHops
    /\ hop_trail[TracedProbe][1].geo \notin {NoGeo, hop_trail[TracedProbe][2].geo}
    /\ hop_trail[TracedProbe][2].geo # NoGeo
    /\ hop_trail[TracedProbe][MaxTrackHops].geo = NoGeo
    /\ \E k \in 1..Len(race_results) :
          /\ race_results[k].rank # Sentinel
          /\ race_results[k].total_hops = MaxTrackHops
          /\ race_results[k].final_hop_lat = hop_trail[TracedProbe][2].geo

\* The window of the challenge at place k of the directory contains now.
WindowOpen(k) == challenges[k] \notin ended

\* C32: get_active_challenge answers a challenge of the directory whose
\* window contains the current time, answers none exactly when there is no
\* such challenge, and of several answers the first in the directory's
\* order; being a function of the directory and the clock it answers the
\* same on every call in one state.
C32_FirstActiveChallenge ==
    LET c == get_active_challenge
        open == {k \in 1..Len(challenges) : WindowOpen(k)}
    IN  /\ c = NoChallenge <=> open = {}
        /\ c # NoChallenge
           => \E k \in open :
                 /\ challenges[k] = c
                 /\ \A j \in open : k <= j

\* Two challenges are in the directory and the window of both is open.
C32_Witness ==
    /\ Len(challenges) = NumChallenges
    /\ \A k \in 1..Len(challenges) : WindowOpen(k)
    /\ get_active_challenge = challenges[1]
    /\ challenges[1] # challenges[NumChallenges]

\* C33: the end of one probe removes only the session that this probe
\* created: a probe in race mode whose stream has not ended still finds a
\* session of its participant in active_races.
C33_StreamingProbeKeepsSession ==
    \A i \in Probes :
        (pc[i] # "idle" /\ is_race[i])
        => active_races[player_id[i]] # NoSession

\* The step is a toggle of challenge mode.
ToggleStep == bcast' # <<>> /\ bcast'[1].type = "challenge_mode_changed"

\* C34: a toggle of challenge mode, enabling or disabling, leaves the list
\* race_results as it is: the same records at the same places, none added.
C34_ToggleKeepsRecords ==
    [][ToggleStep => race_results' = race_results]_vars

====
